---- MODULE Spec2Model ----
(***************************************************************************)
(* Model of app.py, the "UX Beauty Benchmark" Streamlit script: one page   *)
(* fetch, up to three stylesheet fetches, regex colour counting, a fixed   *)
(* arithmetic mapping to seven 1..10 scores, and a ranked table against    *)
(* five fixed reference rows.                                              *)
(*                                                                         *)
(* Representation.                                                         *)
(*  - A url is a pair <<scheme, host>>; scheme "" is a url typed without   *)
(*    one.  urljoin(base, href) is the pair <<base, href>>.                *)
(*  - A text (css) is a sequence of lexical tokens <<kind, n>>: a colour   *)
(*    literal, the substring ":hover", a newline, or other text.           *)
(*  - An html document is the record of what the parser finds in it: the   *)
(*    three structural signals and the sequence of stylesheet links, each  *)
(*    carrying an href (a positive number) or none (NoHref).               *)
(*  - Times are in microseconds and sizes in bytes, so that the roundings  *)
(*    of the diagnostics are real roundings.  A rational x is passed to    *)
(*    round and clamp_score as numerator and denominator.                  *)
(*  - A python dict is a function whose DOMAIN is its key set; a missing   *)
(*    key (and a NaN cell of the data frame) is an absent key.             *)
(***************************************************************************)
EXTENDS Integers, Sequences, FiniteSets, TLC

VARIABLES
    REFERENCE_BENCHMARKS,  \* the module-level list of reference rows
    html_cache,            \* st.cache_data store of fetch_html: url -> result
    css_cache,             \* st.cache_data store of fetch_css_assets: <<html, base_url, limit>> -> text
    url,                   \* the url of the latest analysis
    log,                   \* the network requests issued by the latest script run, in order
    result,                \* what analyze_site returned in the latest script run
    table,                 \* the data frame built in the latest script run (<<>>: none built)
    inp                    \* the arguments handed to a function applied on its own

vars == <<REFERENCE_BENCHMARKS, html_cache, css_cache, url, log, result, table, inp>>

----------------------------------------------------------------------------
(* Bounds *)

MaxLinks == 4      \* stylesheet <link> elements in a page
MaxColors == 50    \* distinct colour literals in a stylesheet text

----------------------------------------------------------------------------
(* Fixed data *)

LABEL == "Product / UX Factor"
TOTAL == "Total / 70"
RANK == "Rank"

UX_FACTORS ==
    <<"Simplicity", "Navigation Ease", "Personality", "Delight/Micro-Interactions",
      "Accessibility", "Speed & Responsiveness", "Emotional Resonance">>

Factors == {UX_FACTORS[i] : i \in DOMAIN UX_FACTORS}

Row(label, si, na, pe, de, ac, sp, em) ==
    (LABEL :> label) @@ ("Simplicity" :> si) @@ ("Navigation Ease" :> na)
    @@ ("Personality" :> pe) @@ ("Delight/Micro-Interactions" :> de)
    @@ ("Accessibility" :> ac) @@ ("Speed & Responsiveness" :> sp)
    @@ ("Emotional Resonance" :> em)

BENCHMARKS_LITERAL ==
    << Row("Apple iOS", 9, 9, 9, 8, 8, 9, 9),
       Row("Airbnb",    9, 9, 8, 8, 9, 9, 8),
       Row("Notion",    8, 8, 9, 8, 8, 8, 9),
       Row("Tesla UI",  8, 9, 9, 9, 7, 9, 9),
       Row("Figma",     8, 9, 8, 9, 8, 10, 8) >>

----------------------------------------------------------------------------
(* Helpers *)

Min(a, b) == IF a < b THEN a ELSE b
Max(a, b) == IF a > b THEN a ELSE b

\* python round(num/den), den > 0: to the nearest integer, a tie to the even one
round_half_up(num, den) ==
    LET q == num \div den
        r == num % den
    IN  IF 2 * r < den THEN q ELSE q + 1

round(num, den) ==
    LET q == num \div den
        r == num % den
    IN  IF 2 * r < den THEN q
        ELSE IF 2 * r > den THEN q + 1
        ELSE IF q % 2 = 0 THEN q ELSE q + 1


\* clamp_score(x, lo=1, hi=10)
clamp_score(num, den) == Max(1, Min(10, round(num, den)))

----------------------------------------------------------------------------
(* Texts *)

Color(n) == <<"color", n>>     \* the n-th distinct colour literal (#hex or rgb(...))
HOVER == <<":hover", 0>>
NL == <<"newline", 0>>
PLAIN == <<"text", 0>>

\* n distinct colour literals
Palette(n) == [i \in 1..n |-> Color(i)]

\* the separator.join(texts) of python, the separator being the newline
RECURSIVE Join(_)
Join(texts) ==
    IF Len(texts) = 0 THEN <<>>
    ELSE IF Len(texts) = 1 THEN texts[1]
    ELSE texts[1] \o <<NL>> \o Join(Tail(texts))

CSS_CAP == 50000

\* text[:50000], the cap counted in tokens
Truncate(text) == SubSeq(text, 1, Min(Len(text), CSS_CAP))

\* len(set(re.findall(hex) + re.findall(rgb)))
count_colors(css_text) ==
    Cardinality({css_text[i] : i \in {j \in DOMAIN css_text : css_text[j][1] = "color"}})

cohesion_from_colors(color_count) ==
    IF color_count <= 6 THEN 10
    ELSE IF color_count <= 12 THEN 8
    ELSE IF color_count <= 24 THEN 6
    ELSE IF color_count <= 48 THEN 4
    ELSE 2

----------------------------------------------------------------------------
(* The network: what a request can come back with *)

NoHref == 0

\* the sequences of stylesheet links of a page: link i has href i or no href
LinkSeqs ==
    UNION { {s \in [1..n -> 0..MaxLinks] : \A i \in 1..n : s[i] \in {NoHref, i}}
            : n \in 0..MaxLinks }

Html(nav, icon, aria, links) ==
    [nav |-> nav, icon |-> icon, aria |-> aria, links |-> links]

EmptyHtml == Html(FALSE, FALSE, FALSE, <<>>)

\* the pages the network serves
PagesNet ==
    { Html(b, b, b, l) : b \in BOOLEAN, l \in LinkSeqs }

\* the stylesheet bodies the network serves
CssBodies == { <<>>, <<HOVER, Color(1)>>, <<Color(2)>> }

\* requests.get of the page: an exception, or a response
PageOutcomes ==
    [kind : {"exc"}, msg : {"ConnectionError", "Timeout"}]
    \cup [kind : {"resp"}, status : {304, 404, 500}, elapsed : {300000}, size : {0},
          text : {EmptyHtml}]
    \cup [kind : {"resp"}, status : {200}, elapsed : {300000, 1000000}, size : {2100},
          text : PagesNet]

\* requests.get of a stylesheet: an exception, or a response
CssOutcomes ==
    [kind : {"exc"}]
    \cup [kind : {"resp"}, ok : {FALSE}, text : {<<PLAIN>>}]
    \cup [kind : {"resp"}, ok : {TRUE}, text : CssBodies]

Inputs == { <<"", "example.com">> }

----------------------------------------------------------------------------
(* Fetcher *)

\* urlparse(url).scheme missing: "https://" + url
with_scheme(u) == IF u[1] = "" THEN <<"https", u[2]>> ELSE u

urljoin(base_url, href) == <<base_url, href>>

\* str(e)
ErrorText(kind, code) == <<kind, code>>

fetch_html_no_raise(u, out) ==
    IF out.kind = "exc" THEN [error |-> ErrorText(out.msg, 0)]
    ELSE [final_url |-> with_scheme(u), status |-> out.status,
          elapsed |-> out.elapsed, size |-> out.size, text |-> out.text]

\* the body of fetch_html, out being what requests.get comes back with;
\* raise_for_status raises on the statuses 400..599
fetch_html(u, out) ==
    IF out.kind = "exc" THEN [error |-> ErrorText(out.msg, 0)]
    ELSE IF out.status >= 400 THEN [error |-> ErrorText("HTTPError", out.status)]
    ELSE [final_url |-> with_scheme(u), status |-> out.status,
          elapsed |-> out.elapsed, size |-> out.size, text |-> out.text]

CSS_LIMIT == 3

take_all(seq, n) == seq

\* seq[:n]
take(seq, n) == SubSeq(seq, 1, Min(Len(seq), n))

\* the hrefs fetch_css_assets requests: those of the stylesheet links that
\* have one, resolved against base_url, the first `limit` of them
stylesheet_hrefs(html, base_url, limit) ==
    LET with_href == SelectSeq(html.links, LAMBDA h : h # NoHref)
    IN  take([i \in DOMAIN with_href |-> urljoin(base_url, with_href[i])], limit)

keeps_any_response(out) == out.kind = "resp" /\ out.ok

\* r.ok and r.text, no exception raised
keeps(out) == out.kind = "resp" /\ out.ok /\ out.text # <<>>

\* the loop over hrefs and the join, outs[i] being what the i-th request
\* comes back with (the parser takes any markup, so the outer except, which
\* returns the empty text, is never entered)
fetch_css_assets(hrefs, outs) ==
    LET kept == SelectSeq([i \in DOMAIN hrefs |-> outs[i]], keeps)
    IN  Join([i \in DOMAIN kept |-> Truncate(kept[i].text)])

PageRequest(u, out) == [kind |-> "page", target |-> with_scheme(u), out |-> out]

CssRequests(hrefs, outs) ==
    [i \in DOMAIN hrefs |-> [kind |-> "css", target |-> hrefs[i], out |-> outs[i]]]

\* st.cache_data: a call whose arguments are in the store is answered from it
never_cached(cache, key) == FALSE

cached(cache, key) == key \in DOMAIN cache

\* st.cache_data: the value computed on a miss is stored under the arguments
store(cache, key, value) == (key :> value) @@ cache

----------------------------------------------------------------------------
(* Scorer *)

Bit(b) == IF b THEN 1 ELSE 0

has_hover(css_text) == \E i \in DOMAIN css_text : css_text[i] = HOVER

ScoreDict(si, na, pe, de, ac, sp, em) ==
    ("Simplicity" :> si) @@ ("Navigation Ease" :> na) @@ ("Personality" :> pe)
    @@ ("Delight/Micro-Interactions" :> de) @@ ("Accessibility" :> ac)
    @@ ("Speed & Responsiveness" :> sp) @@ ("Emotional Resonance" :> em)

scores_without_resonance(res, css_text) ==
    LET soup == res.text
        cohesion == cohesion_from_colors(count_colors(css_text))
    IN  ("Simplicity" :> clamp_score(cohesion + 8, 2))
        @@ ("Navigation Ease" :> clamp_score(5 + Bit(soup.nav), 1))
        @@ ("Personality" :> clamp_score(cohesion + Bit(soup.icon) + 6, 2))
        @@ ("Delight/Micro-Interactions" :> clamp_score(5 + Bit(has_hover(css_text)), 1))
        @@ ("Accessibility" :> clamp_score(6 + Bit(soup.aria), 1))
        @@ ("Speed & Responsiveness" :> clamp_score(IF res.elapsed < 1000000 THEN 10 ELSE 7, 1))

\* the scores dict of analyze_site
scores_of(res, css_text) ==
    LET soup == res.text
        cohesion == cohesion_from_colors(count_colors(css_text))
    IN  ScoreDict(
            clamp_score(cohesion + 8, 2),
            clamp_score(5 + Bit(soup.nav), 1),
            clamp_score(cohesion + Bit(soup.icon) + 6, 2),
            clamp_score(5 + Bit(has_hover(css_text)), 1),
            clamp_score(6 + Bit(soup.aria), 1),
            clamp_score(IF res.elapsed < 1000000 THEN 10 ELSE 7, 1),
            clamp_score(cohesion + 8, 2))

\* the debug dict of analyze_site: the load time in milliseconds (seconds to
\* 3 places), the size in tenths of a KB (KB to 1 place)
debug_of(res, css_text) ==
    ("Final URL" :> res.final_url)
    @@ ("HTTP Status" :> res.status)
    @@ ("Load Time (s)" :> round(res.elapsed, 1000))
    @@ ("HTML Size (KB)" :> round(res.size * 10, 1024))
    @@ ("CSS Colors Found" :> count_colors(css_text))
    @@ ("Palette Cohesion Score" :> cohesion_from_colors(count_colors(css_text)))

\* what analyze_site returns from the page result and the style text:
\* (None, message) is the record of status "error"
analyze_site(res, css_text) ==
    IF "error" \in DOMAIN res
    THEN [status |-> "error", message |-> res.error]
    ELSE [status |-> "ok", scores |-> scores_of(res, css_text),
          debug |-> debug_of(res, css_text)]

NoResult == [status |-> "none"]

----------------------------------------------------------------------------
(* Benchmark table *)

\* the row of build_table's first loop: the label and the factor columns
CopyRow(ref) == [k \in {LABEL} \cup Factors |-> ref[k]]

\* the target's row: target_scores.get(f, None), None being an absent key
TargetRow(target_label, target_scores) ==
    (LABEL :> target_label)
    @@ [f \in Factors \cap DOMAIN target_scores |-> target_scores[f]]

rows_without_target(refs, target_label, target_scores) ==
    [i \in DOMAIN refs |-> CopyRow(refs[i])]

Rows(refs, target_label, target_scores) ==
    [i \in DOMAIN refs |-> CopyRow(refs[i])]
    \o <<TargetRow(target_label, target_scores)>>

\* df[UX_FACTORS].sum(axis=1): the sum of the cells present
RECURSIVE SumFactors(_, _)
SumFactors(row, i) ==
    IF i = 0 THEN 0
    ELSE SumFactors(row, i - 1)
         + (IF UX_FACTORS[i] \in DOMAIN row THEN row[UX_FACTORS[i]] ELSE 0)

Total(row) == SumFactors(row, Len(UX_FACTORS))

rank_dense(totals, i) ==
    1 + Cardinality({totals[j] : j \in {k \in DOMAIN totals : totals[k] > totals[i]}})

rank_max(totals, i) ==
    Cardinality({j \in DOMAIN totals : totals[j] >= totals[i]})

\* rank(method="min", ascending=False) of row i
rank(totals, i) ==
    1 + Cardinality({j \in DOMAIN totals : totals[j] > totals[i]})

\* sort_values(by=Total, ascending=False): an insertion of each row after the
\* rows of greater or equal Total
RECURSIVE Insert(_, _)
Insert(sorted, row) ==
    IF sorted = <<>> THEN <<row>>
    ELSE IF sorted[1][TOTAL] >= row[TOTAL] THEN <<sorted[1]>> \o Insert(Tail(sorted), row)
    ELSE <<row>> \o sorted

RECURSIVE SortDesc(_, _)
SortDesc(rows, n) ==
    IF n = 0 THEN <<>> ELSE Insert(SortDesc(rows, n - 1), rows[n])

build_table(target_label, target_scores) ==
    LET rows == Rows(REFERENCE_BENCHMARKS, target_label, target_scores)
        totals == [i \in DOMAIN rows |-> Total(rows[i])]
        df == [i \in DOMAIN rows |->
                 rows[i] @@ (TOTAL :> totals[i]) @@ (RANK :> rank(totals, i))]
    IN  SortDesc(df, Len(df))

\* urlparse(url).netloc or url
site_label(u) == u[2]

NoTable == <<>>

----------------------------------------------------------------------------
(* The script: one run of app.py per user interaction *)

NoInp == [kind |-> "none"]

\* the value the url field starts with
DefaultUrl == <<"https", "www.apple.com">>

Init ==
    /\ REFERENCE_BENCHMARKS = BENCHMARKS_LITERAL
    /\ html_cache = <<>>
    /\ css_cache = <<>>
    /\ url = DefaultUrl
    /\ log = <<>>
    /\ result = NoResult
    /\ table = NoTable
    /\ inp = NoInp

\* analyze_site from the page result on, and build_table when it returned
\* scores; outs are what the network answers to the stylesheet requests
Analyze(u, res, page_log) ==
    /\ url' = u
    /\ UNCHANGED <<REFERENCE_BENCHMARKS, inp>>
    /\ IF "error" \in DOMAIN res
       THEN /\ css_cache' = css_cache
            /\ log' = page_log
            /\ result' = analyze_site(res, <<>>)
            /\ table' = NoTable
       ELSE LET key == <<res.text, res.final_url>>
                hit == cached(css_cache, key)
                hrefs == IF hit THEN <<>>
                         ELSE stylesheet_hrefs(res.text, res.final_url, CSS_LIMIT)
            IN  \E outs \in [DOMAIN hrefs -> CssOutcomes] :
                LET css_text == IF hit THEN css_cache[key]
                                ELSE fetch_css_assets(hrefs, outs)
                    ret == analyze_site(res, css_text)
                IN  /\ css_cache' = IF hit THEN css_cache
                                    ELSE store(css_cache, key, css_text)
                    /\ log' = page_log \o CssRequests(hrefs, outs)
                    /\ result' = ret
                    /\ table' = build_table(site_label(u), ret.scores)

\* A run with the button pressed on url u; pout is what the network answers
\* to the page request, when one is issued
AnalyzeClick(u) ==
    IF cached(html_cache, u)
    THEN /\ html_cache' = html_cache
         /\ Analyze(u, html_cache[u], <<>>)
    ELSE \E pout \in PageOutcomes :
            /\ html_cache' = store(html_cache, u, fetch_html(u, pout))
            /\ Analyze(u, fetch_html(u, pout), <<PageRequest(u, pout)>>)

\* A run without the button pressed: nothing is analysed or drawn
Rerun ==
    /\ result # NoResult
    /\ log' = <<>>
    /\ result' = NoResult
    /\ table' = NoTable
    /\ UNCHANGED <<REFERENCE_BENCHMARKS, html_cache, css_cache, url, inp>>

Next ==
    \/ \E u \in Inputs : AnalyzeClick(u)
    \/ Rerun

Spec == Init /\ [][Next]_vars

----------------------------------------------------------------------------
(* analyze_site and build_table applied to given fetch results *)

ElapsedValues == {300000, 999600, 1000000, 2500000}

ScoreResults ==
    { [final_url |-> with_scheme(DefaultUrl), status |-> 200, elapsed |-> e,
       size |-> 2100, text |-> Html(n, i, a, <<>>)]
      : e \in ElapsedValues, n \in BOOLEAN, i \in BOOLEAN, a \in BOOLEAN }

ScoreTexts ==
    { (IF h THEN <<HOVER>> ELSE <<PLAIN>>) \o Palette(n) \o (IF d THEN Palette(n) ELSE <<>>)
      : h \in BOOLEAN, d \in BOOLEAN, n \in 0..MaxColors }

InitScore ==
    /\ REFERENCE_BENCHMARKS = BENCHMARKS_LITERAL
    /\ html_cache = <<>>
    /\ css_cache = <<>>
    /\ url = DefaultUrl
    /\ log = <<>>
    /\ result = NoResult
    /\ table = NoTable
    /\ inp \in [kind : {"score"}, res : ScoreResults, css_text : ScoreTexts]

\* lines 116-138 and 188-189 on a page result and a style text
ScoreStep ==
    /\ inp.kind = "score"
    /\ result = NoResult
    /\ result' = analyze_site(inp.res, inp.css_text)
    /\ table' = build_table(site_label(url), result'.scores)
    /\ UNCHANGED <<REFERENCE_BENCHMARKS, html_cache, css_cache, url, log, inp>>

NextScore == ScoreStep

SpecScore == InitScore /\ [][NextScore]_vars

\* the score sets handed to build_table: any subset of the factors scored
ScoreValues == {8, 9, 10}

TargetScoreSets == UNION { [F -> ScoreValues] : F \in SUBSET Factors }

InitTable ==
    /\ REFERENCE_BENCHMARKS = BENCHMARKS_LITERAL
    /\ html_cache = <<>>
    /\ css_cache = <<>>
    /\ url = DefaultUrl
    /\ log = <<>>
    /\ result = NoResult
    /\ table = NoTable
    /\ inp \in [kind : {"table"}, scores : TargetScoreSets]

TableStep ==
    /\ inp.kind = "table"
    /\ table = NoTable
    /\ table' = build_table(site_label(url), inp.scores)
    /\ UNCHANGED <<REFERENCE_BENCHMARKS, html_cache, css_cache, url, log, result, inp>>

NextTable == TableStep

SpecTable == InitTable /\ [][NextTable]_vars

----------------------------------------------------------------------------
(* Properties *)

\* the latest run analysed a page it fetched from the network with success
FetchedOk ==
    /\ result.status = "ok"
    /\ log # <<>>
    /\ log[1].kind = "page"

CssLog == SelectSeq(log, LAMBDA r : r.kind = "css")

PageLog == SelectSeq(log, LAMBDA r : r.kind = "page")

\* the key under which the latest analysis' style text is stored
StyleKey == <<html_cache[url].text, html_cache[url].final_url>>

\* C1: the scenario of the claim: one stylesheet `a:hover{color:#123456}`, a
\* page with <nav>, a favicon link and an aria-label, fetched in 0.3 s
C1_Scenario ==
    /\ FetchedOk
    /\ log[1].out.elapsed = 300000
    /\ log[1].out.text.nav /\ log[1].out.text.icon /\ log[1].out.text.aria
    /\ Len(log) = 2
    /\ log[2].out = [kind |-> "resp", ok |-> TRUE, text |-> <<HOVER, Color(1)>>]

\* C1 as stated: in the scenario analyze_site returns Navigation Ease 6,
\* Delight 6, Accessibility 7, Speed 10, Simplicity 9, Personality 9 and
\* Emotional Resonance 9
C1_PersonalityNine ==
    C1_Scenario => result.scores = ScoreDict(9, 6, 9, 6, 7, 10, 9)

\* C1 amended: in the scenario analyze_site finds 1 colour, cohesion 10, and
\* returns Navigation Ease 6, Delight 6, Accessibility 7, Speed 10,
\* Simplicity 9, Emotional Resonance 9 and Personality 8: (10 + 1 + 6)/2 is
\* 8.5, which round() takes to the even neighbour 8
C1_PersonalityEight ==
    C1_Scenario =>
        /\ result.debug["CSS Colors Found"] = 1
        /\ result.debug["Palette Cohesion Score"] = 10
        /\ result.scores = ScoreDict(9, 6, 8, 6, 7, 10, 9)

C1_Witness == C1_Scenario /\ result.scores["Personality"] = 8

TableTotals == {table[i][TOTAL] : i \in DOMAIN table}

\* C2 as stated: Rank is a dense ranking over Total, descending: the highest
\* Total has Rank 1, equal Totals have equal Rank, and the Rank values used
\* are 1..k, k the number of distinct Totals
C2_DenseRanking ==
    table # NoTable =>
        /\ \A i \in DOMAIN table :
              (\A j \in DOMAIN table : table[j][TOTAL] <= table[i][TOTAL])
                  => table[i][RANK] = 1
        /\ \A i, j \in DOMAIN table :
              table[i][TOTAL] = table[j][TOTAL] => table[i][RANK] = table[j][RANK]
        /\ {table[i][RANK] : i \in DOMAIN table} = 1..Cardinality(TableTotals)

\* C2 amended: Rank is the minimum-rank ("competition") ranking over Total,
\* descending: a row's Rank is 1 + the number of rows of strictly greater
\* Total, so the highest Total has Rank 1, equal Totals have equal Rank, a
\* greater Total has a smaller Rank, and the rank after a tie of n rows skips
\* n - 1 values; the rows come sorted by descending Total
C2_MinRanking ==
    table # NoTable =>
        /\ \A i \in DOMAIN table :
              table[i][RANK]
                  = 1 + Cardinality({j \in DOMAIN table : table[j][TOTAL] > table[i][TOTAL]})
        /\ \A i \in DOMAIN table :
              (\A j \in DOMAIN table : table[j][TOTAL] <= table[i][TOTAL])
                  => table[i][RANK] = 1
        /\ \A i, j \in DOMAIN table :
              /\ table[i][TOTAL] = table[j][TOTAL] => table[i][RANK] = table[j][RANK]
              /\ table[i][TOTAL] > table[j][TOTAL] => table[i][RANK] < table[j][RANK]
              /\ i < j => table[i][TOTAL] >= table[j][TOTAL]

\* the target ties with the three reference rows of Total 60: ranks 1,2,2,2,2,6
C2_Witness ==
    /\ table # NoTable
    /\ \E i \in DOMAIN table :
          /\ table[i][LABEL] = site_label(url)
          /\ table[i][TOTAL] = 60
          /\ table[i][RANK] = 2
    /\ table[6][RANK] = 6

\* the page request of the latest run failed: an exception, or a status
\* that raise_for_status raises on
PageFetchFailed ==
    /\ log # <<>>
    /\ log[1].kind = "page"
    /\ \/ log[1].out.kind = "exc"
       \/ log[1].out.kind = "resp" /\ log[1].out.status \in 400..599

\* C3: when the page fetch fails, analyze_site returns (None, the error
\* message), the run issued that one page request and no stylesheet request,
\* and no table is built; the same when the failure is answered from the
\* cache, with no request at all
C3_FailedFetchIsFatal ==
    /\ PageFetchFailed =>
          /\ result.status = "error"
          /\ result.message = html_cache[url].error
          /\ Len(log) = 1
          /\ table = NoTable
    /\ result.status = "error" =>
          /\ CssLog = <<>>
          /\ Len(PageLog) <= 1
          /\ table = NoTable

C3_Witness ==
    /\ PageFetchFailed
    /\ log[1].out.kind = "resp"
    /\ result.status = "error"

\* the bodies of the stylesheet responses of the latest run that pass `sel`
BodiesWhere(sel(_)) ==
    LET got == SelectSeq(CssLog, LAMBDA r : sel(r.out))
    IN  [i \in DOMAIN got |-> got[i].out.text]

C4_Succeeded(out) == out.kind = "resp" /\ out.ok

C4_SucceededNonEmpty(out) == out.kind = "resp" /\ out.ok /\ Len(out.text) > 0

C4_Capped(texts) ==
    [i \in DOMAIN texts |-> SubSeq(texts[i], 1, Min(Len(texts[i]), CSS_CAP))]

\* a run whose page request came back with no exception and no status of
\* 400..599 always returns scores and diagnostics
C4_NeverFails ==
    (/\ log # <<>>
     /\ log[1].kind = "page"
     /\ log[1].out.kind = "resp"
     /\ log[1].out.status < 400)
        => /\ result.status = "ok"
           /\ DOMAIN result.scores = Factors
           /\ "CSS Colors Found" \in DOMAIN result.debug
           /\ table # NoTable

\* C4 as stated: stylesheet failures never fail the analysis, and the style
\* text used is the newline-joined bodies of the stylesheets whose fetch
\* succeeded (no exception, ok response), in link order
C4_JoinOfSucceeded ==
    /\ C4_NeverFails
    /\ FetchedOk => css_cache[StyleKey] = Join(BodiesWhere(C4_Succeeded))

\* C4 amended: stylesheet failures never fail the analysis, and the style
\* text used is the newline-joined bodies, each cut to its first 50,000
\* characters, of the stylesheets whose fetch succeeded with a non-empty
\* body, in link order (empty when there is none)
C4_JoinOfNonEmpty ==
    /\ C4_NeverFails
    /\ FetchedOk =>
          /\ css_cache[StyleKey] = Join(C4_Capped(BodiesWhere(C4_SucceededNonEmpty)))
          /\ result.debug["CSS Colors Found"]
                = count_colors(Join(C4_Capped(BodiesWhere(C4_SucceededNonEmpty))))

\* three requests: the first fails, the second is empty, the third is kept
C4_Witness ==
    /\ FetchedOk
    /\ Len(CssLog) = 3
    /\ CssLog[1].out.kind = "exc"
    /\ CssLog[2].out = [kind |-> "resp", ok |-> TRUE, text |-> <<>>]
    /\ CssLog[3].out = [kind |-> "resp", ok |-> TRUE, text |-> <<Color(2)>>]
    /\ css_cache[StyleKey] = <<Color(2)>>

\* C5: a ScoreSet returned by analyze_site has the 7 factors as its keys and
\* an integer of 1..10 under each, whatever the colour count, the
\* structural signals and the elapsed time
C5_SevenScoresInRange ==
    result.status = "ok" =>
        /\ DOMAIN result.scores = Factors
        /\ Cardinality(DOMAIN result.scores) = 7
        /\ \A f \in Factors : result.scores[f] \in 1..10

\* the poorest site: more than 48 colours, no signal, a slow fetch
C5_Witness ==
    /\ result.status = "ok"
    /\ result.debug["CSS Colors Found"] > 48
    /\ result.scores = ScoreDict(5, 5, 4, 5, 6, 7, 5)

\* C6: an input whose fetch has completed is answered from the cache from
\* then on: its cache entry never changes again, and a later analysis of the
\* same url issues no network request and returns what the earlier one did
C6_CachedForever ==
    [][ /\ \A k \in DOMAIN html_cache :
              k \in DOMAIN html_cache' /\ html_cache'[k] = html_cache[k]
        /\ \A k \in DOMAIN css_cache :
              k \in DOMAIN css_cache' /\ css_cache'[k] = css_cache[k]
        /\ \A u \in DOMAIN html_cache :
              (url' = u /\ result'.status # "none") =>
                  /\ log' = <<>>
                  /\ (url = u /\ result.status # "none") =>
                        (result' = result /\ table' = table)
      ]_vars

\* a second analysis of a page with stylesheets, answered without a request
C6_Witness ==
    /\ result.status = "ok"
    /\ log = <<>>
    /\ url \in DOMAIN html_cache
    /\ stylesheet_hrefs(html_cache[url].text, html_cache[url].final_url, CSS_LIMIT) # <<>>
    /\ StyleKey \in DOMAIN css_cache

\* C7: no failed or degraded outcome is stored: the cache holds no error
\* result of a page fetch, and no style text of a run in which a stylesheet
\* fetch failed
C7_NoPartialResultCached ==
    /\ \A u \in DOMAIN html_cache : "error" \notin DOMAIN html_cache[u]
    /\ (/\ FetchedOk
        /\ \E i \in DOMAIN CssLog : ~ C4_Succeeded(CssLog[i].out))
           => StyleKey \notin DOMAIN css_cache

\* the positions of the stylesheet links of the analysed page that have an
\* href and fewer than 3 such links before them
C8_FirstThree ==
    LET links == html_cache[url].text.links
        H == {i \in DOMAIN links : links[i] # NoHref}
    IN  {i \in H : Cardinality({j \in H : j < i}) < 3}

\* C8: a run issues at most 1 page request and at most 3 stylesheet
\* requests; the stylesheet requests are those of the first 3 links that
\* have an href, one each, in link order, whichever of them fail
C8_RequestBudget ==
    /\ Len(PageLog) <= 1
    /\ Len(CssLog) <= 3
    /\ Len(log) = Len(PageLog) + Len(CssLog)
    /\ FetchedOk =>
          /\ Len(CssLog) = Cardinality(C8_FirstThree)
          /\ {CssLog[i].target : i \in DOMAIN CssLog}
                = {urljoin(html_cache[url].final_url, html_cache[url].text.links[p])
                   : p \in C8_FirstThree}
          /\ \A i, j \in DOMAIN CssLog :
                i < j => CssLog[i].target[2] < CssLog[j].target[2]

\* a page of 4 links with an href whose first stylesheet fails: 3 requests
C8_Witness ==
    /\ FetchedOk
    /\ Cardinality({i \in DOMAIN html_cache[url].text.links :
                        html_cache[url].text.links[i] # NoHref}) = 4
    /\ Len(CssLog) = 3
    /\ CssLog[1].out.kind = "exc"

\* the cells of a table row under the label and the factor columns
C9_Cells(row) == [k \in DOMAIN row \ {TOTAL, RANK} |-> row[k]]

\* C9: REFERENCE_BENCHMARKS stays what the script defines, and a table has
\* exactly 6 rows: each reference row once with its scores as defined, and
\* one row for the target's label with the target's scores
C9_ReferenceRowsKept ==
    /\ REFERENCE_BENCHMARKS = BENCHMARKS_LITERAL
    /\ table # NoTable =>
          /\ Len(table) = 6
          /\ \A r \in DOMAIN BENCHMARKS_LITERAL :
                Cardinality({i \in DOMAIN table : C9_Cells(table[i]) = BENCHMARKS_LITERAL[r]}) = 1
          /\ Cardinality({i \in DOMAIN table :
                            C9_Cells(table[i]) = (LABEL :> site_label(url)) @@ result.scores}) = 1

\* a table built by a second analysis, after an earlier one built one
C9_Witness ==
    /\ table # NoTable
    /\ log = <<>>
    /\ REFERENCE_BENCHMARKS = BENCHMARKS_LITERAL
    /\ Len(table) = 6
    /\ \E i \in DOMAIN table :
          table[i][LABEL] = site_label(url) /\ table[i][TOTAL] = Total(result.scores)

\* C10: the target's Total is at most 55 and below every reference Total
\* (the least is 58), so the target has Rank 6 and is the last row
C10_TargetLast ==
    table # NoTable =>
        /\ table[6][LABEL] = site_label(url)
        /\ table[6][RANK] = 6
        /\ table[6][TOTAL] <= 55
        /\ \A i \in 1..5 :
              /\ table[i][LABEL] # site_label(url)
              /\ table[i][TOTAL] >= 58
              /\ table[i][TOTAL] > table[6][TOTAL]

\* the best site the scorer can describe: Total 55
C10_Witness ==
    /\ table # NoTable
    /\ table[6][TOTAL] = 55
    /\ table[6][RANK] = 6

====
